---- MODULE Spec2Model ----
(***************************************************************************)
(* Model of the aggregation core of cmd/ahdbweb/main.go: the series and    *)
(* histogram handlers (handleSeries, handleHistogram), the scan            *)
(* accumulator, the trimmer, the statistics reducer and the histogram      *)
(* builder.                                                                *)
(*                                                                         *)
(* Numbers.  int64 prices, ids and timestamps are integers of the model;   *)
(* every value the model draws is far inside the int64 range.  float64     *)
(* results of the reducer (mean, m2, median, quartiles) are kept as exact  *)
(* fractions <<num, den>>: the model follows the reducer's recurrences in  *)
(* exact arithmetic.  The one float64 expression whose rounding decides an *)
(* integer result, the trim count of trimSorted, is computed bit by bit    *)
(* as IEEE-754 binary64 does (round to nearest, ties to even).             *)
(* medianSorted is modelled a second time on the full range of int64      *)
(* (medianSortedInt64), with the wrapping sum of Go and the rounding of    *)
(* float64, for calls on prices of any size.                               *)
(***************************************************************************)
EXTENDS Integers, Sequences, FiniteSets, TLC

(***************************************************************************)
(* Bounds of the model.                                                    *)
(***************************************************************************)
\* longest row stream of the base family
MaxRows == 3
\* largest price of the base family (prices are 1..MaxPrice)
MaxPrice == 2
\* longest single scan of the statistics family
MaxScanLen == 5
\* largest price of the single-scan families
MaxScanPrice == 4
\* largest price of the histogram family
MaxHistPrice == 11
\* number of scans of the long family (more than the least maxPoints, 10)
LongRows == 11
\* the longest single scan of the trim family
BigScanLen == 180
\* number of request contexts (goroutines serving a request)
NumRuns == 2

\* longest list of int64 prices given to medianSorted
MaxWideLen == 4

(***************************************************************************)
(* Generic helpers.                                                        *)
(***************************************************************************)
Min2(a, b) == IF a <= b THEN a ELSE b

Max2(a, b) == IF a >= b THEN a ELSE b

Abs(a) == IF a < 0 THEN -a ELSE a

RECURSIVE Gcd(_, _)
Gcd(a, b) == IF b = 0 THEN a ELSE Gcd(b, a % b)

\* Go's integer division truncates toward zero (\div floors).
GoDiv(a, b) == IF a >= 0 THEN a \div b ELSE -((-a) \div b)

\* Go's remainder has the sign of the dividend.
GoMod(a, b) == a - b * GoDiv(a, b)

Reverse(s) == [i \in 1..Len(s) |-> s[Len(s) + 1 - i]]

Last(s) == s[Len(s)]

IsSorted(s) == \A i \in 1..(Len(s) - 1) : s[i] <= s[i + 1]

(***************************************************************************)
(* Exact fractions <<num, den>>, den > 0, in lowest terms: the values of   *)
(* the reducer's float64 variables.                                        *)
(***************************************************************************)
Frac(n, d) ==
    LET s == IF d < 0 THEN -1 ELSE 1
        g == Gcd(Abs(n), Abs(d))
    IN  IF n = 0 THEN <<0, 1>> ELSE <<(s * n) \div g, (s * d) \div g>>

FInt(n) == <<n, 1>>

FAdd(a, b) == Frac(a[1] * b[2] + b[1] * a[2], a[2] * b[2])

FSub(a, b) == Frac(a[1] * b[2] - b[1] * a[2], a[2] * b[2])

FMul(a, b) == Frac(a[1] * b[1], a[2] * b[2])

FDivInt(a, k) == Frac(a[1], a[2] * k)

FLeq(a, b) == a[1] * b[2] <= b[1] * a[2]

FZero == <<0, 1>>

(***************************************************************************)
(* IEEE-754 binary64 arithmetic on positive values, as far as trimSorted   *)
(* needs it.  A float64 is [m |-> bits, e |-> exponent]: m is the          *)
(* significand, most significant bit first, at most F64Precision bits with *)
(* no leading zero, and the value is m * 2^e.  Results are rounded to      *)
(* nearest, ties to even.                                                  *)
(***************************************************************************)
\* significand width of binary64
F64Precision == 53

RECURSIVE IntBits(_)
IntBits(n) == IF n = 0 THEN <<>> ELSE Append(IntBits(n \div 2), n % 2)

RECURSIVE BitsToInt(_)
BitsToInt(b) ==
    IF b = <<>> THEN 0 ELSE 2 * BitsToInt(SubSeq(b, 1, Len(b) - 1)) + b[Len(b)]

RECURSIVE StripZeros(_)
StripZeros(b) ==
    IF b = <<>> \/ b[1] = 1 THEN b ELSE StripZeros(Tail(b))

RECURSIVE IncBits(_)
IncBits(b) ==
    IF b = <<>> THEN <<1>>
    ELSE IF b[Len(b)] = 0 THEN Append(SubSeq(b, 1, Len(b) - 1), 1)
    ELSE Append(IncBits(SubSeq(b, 1, Len(b) - 1)), 0)

\* bits (least significant first) times the small integer n, plus carry
RECURSIVE MulSmallLE(_, _, _)
MulSmallLE(b, n, carry) ==
    IF b = <<>> THEN Reverse(IntBits(carry))
    ELSE <<(n * b[1] + carry) % 2>> \o MulSmallLE(Tail(b), n, (n * b[1] + carry) \div 2)

\* the first k bits of the binary expansion of r/den (0 <= r < den), with
\* the remainder left after them: <<bits, remainder>>
RECURSIVE DivExpand(_, _, _)
DivExpand(st, den, k) ==
    IF k = 0 THEN st
    ELSE IF 2 * st[2] >= den
         THEN DivExpand(<<Append(st[1], 1), 2 * st[2] - den>>, den, k - 1)
         ELSE DivExpand(<<Append(st[1], 0), 2 * st[2]>>, den, k - 1)

\* Round the exact value (b + s) * 2^e to binary64, b a bit string without
\* leading zeros and sticky telling whether a nonzero part 0 < s < 1 follows.
F64Round(b, sticky, e) ==
    IF Len(b) <= F64Precision
    THEN [m |-> b, e |-> e]
    ELSE LET keep  == SubSeq(b, 1, F64Precision)
             guard == b[F64Precision + 1]
             rest  == sticky \/ \E i \in (F64Precision + 2)..Len(b) : b[i] = 1
             up    == guard = 1 /\ (rest \/ keep[F64Precision] = 1)
             e2    == e + Len(b) - F64Precision
             inc   == IncBits(keep)
         IN  IF ~up THEN [m |-> keep, e |-> e2]
             ELSE IF Len(inc) > F64Precision
                  THEN [m |-> SubSeq(inc, 1, F64Precision), e |-> e2 + 1]
                  ELSE [m |-> inc, e |-> e2]

\* float64(a) / float64(den) for integers a >= 1, den >= 1
F64DivInt(a, den) ==
    LET k   == F64Precision + 8 + Len(IntBits(den))
        ex  == DivExpand(<<<<>>, a % den>>, den, k)
        all == StripZeros(IntBits(a \div den) \o ex[1])
    IN  F64Round(all, ex[2] # 0, -k)

\* float64(n) * x for an integer n >= 1 (float64(n) is exact)
F64MulInt(n, x) ==
    F64Round(StripZeros(Reverse(MulSmallLE(Reverse(x.m), n, 0))), FALSE, x.e)

\* int(math.Floor(x)) for x >= 0
F64Floor(x) ==
    IF x.e >= 0 THEN BitsToInt(x.m \o [i \in 1..x.e |-> 0])
    ELSE IF -x.e >= Len(x.m) THEN 0
    ELSE BitsToInt(SubSeq(x.m, 1, Len(x.m) + x.e))

(***************************************************************************)
(* scanAccumulator, medianSorted, trimSorted, point.                       *)
(***************************************************************************)
\* the zero value seriesPoint{}
ZeroPoint ==
    [ScanID |-> 0, TS |-> 0, N |-> 0, Min |-> FZero, Q1 |-> FZero, Q3 |-> FZero,
     Max |-> FZero, Mean |-> FZero, Median |-> FZero, Variance |-> FZero]

\* faulty variant of medianSorted: the sum of the middle pair is not halved
medianSortedNoHalve(values) ==
    LET n == Len(values)
    IN  IF n = 0 THEN FZero
        ELSE IF n % 2 = 1 THEN FInt(values[n \div 2 + 1])
        ELSE FInt(values[n \div 2] + values[n \div 2 + 1])

\* values is 1-indexed here: Go's values[k] is values[k + 1]
medianSorted(values) ==
    LET n == Len(values)
    IN  IF n = 0 THEN FZero
        ELSE IF n % 2 = 1 THEN FInt(values[n \div 2 + 1])
        ELSE Frac(values[n \div 2] + values[n \div 2 + 1], 2)

(***************************************************************************)
(* medianSorted on the full range of int64.  An int64 is                   *)
(* [neg |-> sign, mag |-> bits]: mag is the magnitude, most significant    *)
(* bit first, with no leading zero (<<>> for 0).  lo + hi is the addition  *)
(* of Go on int64: two's complement on Int64Bits bits, the carry out of    *)
(* the top bit is lost.  A float64 with a sign is [neg, m, e], of value    *)
(* (-1)^neg * m * 2^e.                                                     *)
(***************************************************************************)
\* width of the prices: values []int64
Int64Bits == 64

Zeros(k) == [i \in 1..k |-> 0]

\* the int64 of a small integer
I64(n) == [neg |-> n < 0, mag |-> IntBits(Abs(n))]

\* the int64 2^k + d, for 0 <= d < 2^k
I64Pow2Plus(k, d) ==
    [neg |-> FALSE,
     mag |-> <<1>> \o Zeros(k - Len(IntBits(d))) \o IntBits(d)]

I64Neg(x) == IF x.mag = <<>> THEN x ELSE [x EXCEPT !.neg = ~x.neg]

MaxInt64 == [neg |-> FALSE, mag |-> [i \in 1..(Int64Bits - 1) |-> 1]]

MinInt64 == [neg |-> TRUE, mag |-> <<1>> \o Zeros(Int64Bits - 1)]

InvertBits(b) == [i \in 1..Len(b) |-> 1 - b[i]]

\* b + 1 on Len(b) bits, least significant bit first
RECURSIVE IncLE(_)
IncLE(b) ==
    IF b = <<>> THEN <<>>
    ELSE IF b[1] = 0 THEN <<1>> \o Tail(b)
    ELSE <<0>> \o IncLE(Tail(b))

\* a + b + carry on Len(a) bits, least significant bit first
RECURSIVE AddLE(_, _, _)
AddLE(a, b, carry) ==
    IF a = <<>> THEN <<>>
    ELSE <<(a[1] + b[1] + carry) % 2>>
         \o AddLE(Tail(a), Tail(b), (a[1] + b[1] + carry) \div 2)

\* the two's complement bits of x, least significant bit first
Twos64(x) ==
    LET le == Reverse(x.mag) \o Zeros(Int64Bits - Len(x.mag))
    IN  IF x.neg THEN IncLE(InvertBits(le)) ELSE le

\* the int64 of two's complement bits
FromTwos64(b) ==
    IF b[Int64Bits] = 1
    THEN [neg |-> TRUE, mag |-> StripZeros(Reverse(IncLE(InvertBits(b))))]
    ELSE [neg |-> FALSE, mag |-> StripZeros(Reverse(b))]

\* lo + hi on int64
Add64(lo, hi) == FromTwos64(AddLE(Twos64(lo), Twos64(hi), 0))

\* float64(x) for an int64 x
Float64OfInt64(x) ==
    LET f == F64Round(x.mag, FALSE, 0)
    IN  [neg |-> x.neg, m |-> f.m, e |-> f.e]

\* x / 2 on float64
F64Half(x) == IF x.m = <<>> THEN x ELSE [x EXCEPT !.e = x.e - 1]

\* medianSorted on int64 values; values is 1-indexed here
medianSortedInt64(values) ==
    LET n == Len(values)
    IN  IF n = 0 THEN Float64OfInt64(I64(0))
        ELSE IF n % 2 = 1 THEN Float64OfInt64(values[n \div 2 + 1])
        ELSE F64Half(Float64OfInt64(Add64(values[n \div 2], values[n \div 2 + 1])))

reset(a, scanID, ts) == [scanID |-> scanID, ts |-> ts, prices |-> <<>>]

add(a, price) == [a EXCEPT !.prices = Append(a.prices, price)]

\* faulty variant of trimCount: the clamp is n/2
trimCountHalf(n, trimPct) ==
    LET trim    == F64Floor(F64MulInt(n, F64DivInt(trimPct, 100)))
        maxTrim == GoDiv(n, 2)
    IN  IF trim > maxTrim THEN maxTrim ELSE trim

\* the number of elements trimSorted cuts from each end of n > 0 values
\* for trimPct > 0
trimCount(n, trimPct) ==
    LET trim    == F64Floor(F64MulInt(n, F64DivInt(trimPct, 100)))
        maxTrim == GoDiv(n - 1, 2)
    IN  IF trim > maxTrim THEN maxTrim ELSE trim

\* faulty variant of trimSorted: the no-trim shortcut returns an empty slice
trimSortedEmptyOnZero(values, trimPct) ==
    IF trimPct <= 0 THEN <<>>
    ELSE IF Len(values) = 0 THEN values
    ELSE LET trim == trimCount(Len(values), trimPct)
         IN  SubSeq(values, trim + 1, Len(values) - trim)

trimSorted(values, trimPct) ==
    IF trimPct <= 0 THEN values
    ELSE IF Len(values) = 0 THEN values
    ELSE LET trim == trimCount(Len(values), trimPct)
         IN  SubSeq(values, trim + 1, Len(values) - trim)

\* faulty variant of meanM2: m2 grows by delta * delta
RECURSIVE meanM2Naive(_, _, _, _)
meanM2Naive(prices, i, mean, m2) ==
    IF i > Len(prices) THEN <<mean, m2>>
    ELSE LET x      == FInt(prices[i])
             delta  == FSub(x, mean)
             mean2  == FAdd(mean, FDivInt(delta, i))
         IN  meanM2Naive(prices, i + 1, mean2, FAdd(m2, FMul(delta, delta)))

\* the single pass over prices[i..]: <<mean, m2>>
RECURSIVE meanM2(_, _, _, _)
meanM2(prices, i, mean, m2) ==
    IF i > Len(prices) THEN <<mean, m2>>
    ELSE LET x      == FInt(prices[i])
             delta  == FSub(x, mean)
             mean2  == FAdd(mean, FDivInt(delta, i))
             delta2 == FSub(x, mean2)
         IN  meanM2(prices, i + 1, mean2, FAdd(m2, FMul(delta, delta2)))

\* faulty variant of variance: the sample variance
varianceSample(m2, n) == IF n > 1 THEN FDivInt(m2, n - 1) ELSE FZero

\* variance = m2 / float64(n)
variance(m2, n) == IF n > 0 THEN FDivInt(m2, n) ELSE FZero

\* q1 of the trimmed prices
lowerQuartile(prices, median) ==
    LET n == Len(prices)
        lower == SubSeq(prices, 1, n \div 2)
    IN  IF n > 1 /\ Len(lower) > 0 THEN medianSorted(lower) ELSE median

\* faulty variant of upperQuartile: the middle element stays in the upper
\* half when n is odd
upperQuartileInclusive(prices, median) ==
    LET n == Len(prices)
        upper == SubSeq(prices, n \div 2 + 1, n)
    IN  IF n > 1 /\ Len(upper) > 0 THEN medianSorted(upper) ELSE median

\* q3 of the trimmed prices
upperQuartile(prices, median) ==
    LET n == Len(prices)
        upper == IF n % 2 = 0 THEN SubSeq(prices, n \div 2 + 1, n)
                 ELSE SubSeq(prices, n \div 2 + 2, n)
    IN  IF n > 1 /\ Len(upper) > 0 THEN medianSorted(upper) ELSE median

\* Stddev is math.Sqrt(variance): the point keeps the variance itself
statsOf(a, prices) ==
    LET n      == Len(prices)
        mm     == meanM2(prices, 1, FZero, FZero)
        median == medianSorted(prices)
    IN  [ScanID |-> a.scanID, TS |-> a.ts, N |-> n,
         Min |-> FInt(prices[1]), Q1 |-> lowerQuartile(prices, median),
         Q3 |-> upperQuartile(prices, median), Max |-> FInt(prices[n]),
         Mean |-> mm[1], Median |-> median, Variance |-> variance(mm[2], n)]

\* faulty variant of afterPoint: the trimmed slice is stored back into a.prices
afterPointTrimmed(a, trimPct) == [a EXCEPT !.prices = trimSorted(a.prices, trimPct)]

\* the accumulator as point leaves it: point and the trimSorted inside it
\* only read a.scanID, a.ts and the elements of a.prices
afterPoint(a, trimPct) == a

\* faulty variant of point: the empty point keeps the scan's id and timestamp
pointKeepsScan(a, trimPct) ==
    IF Len(a.prices) = 0 THEN [ZeroPoint EXCEPT !.ScanID = a.scanID, !.TS = a.ts]
    ELSE LET prices == trimSorted(a.prices, trimPct)
         IN  IF Len(prices) = 0 THEN ZeroPoint ELSE statsOf(a, prices)

point(a, trimPct) ==
    IF Len(a.prices) = 0 THEN ZeroPoint
    ELSE LET prices == trimSorted(a.prices, trimPct)
         IN  IF Len(prices) = 0 THEN ZeroPoint ELSE statsOf(a, prices)

(***************************************************************************)
(* makeHistogram.                                                          *)
(***************************************************************************)
\* the fallback of makeHistogram for bins <= 0
DefaultHistBins == 24

\* faulty variant of binWidth: the width is rounded down
binWidthFloor(rng, bins) ==
    IF GoDiv(rng, bins) < 1 THEN 1 ELSE GoDiv(rng, bins)

binWidth(rng, bins) ==
    LET width == IF GoMod(rng, bins) # 0 THEN GoDiv(rng, bins) + 1
                 ELSE GoDiv(rng, bins)
    IN  IF width < 1 THEN 1 ELSE width

\* faulty variant of binIndex: the index is not clamped at the top
binIndexNoClamp(p, min, width, bins) ==
    LET idx == GoDiv(p - min, width)
    IN  IF idx < 0 THEN 0 ELSE idx

\* faulty variant of binIndex: the price is not taken relative to min
binIndexAbsolute(p, min, width, bins) ==
    LET idx == GoDiv(p, width)
    IN  IF idx < 0 THEN 0 ELSE IF idx >= bins THEN bins - 1 ELSE idx

\* the 0-based bucket of price p
binIndex(p, min, width, bins) ==
    LET idx == GoDiv(p - min, width)
    IN  IF idx < 0 THEN 0 ELSE IF idx >= bins THEN bins - 1 ELSE idx

\* bucket i (0-based) is res[i + 1]
histBins(sortedPrices, min, width, bins) ==
    [k \in 1..bins |->
        [Lo |-> min + (k - 1) * width,
         Hi |-> min + (k - 1) * width + width,
         Count |-> Cardinality({j \in 1..Len(sortedPrices) :
                       binIndex(sortedPrices[j], min, width, bins) = k - 1})]]

makeHistogram(sortedPrices, bins) ==
    LET n   == Len(sortedPrices)
        min == sortedPrices[1]
        max == sortedPrices[n]
        b   == IF bins <= 0 THEN DefaultHistBins ELSE bins
    IN  IF n = 0 THEN [min |-> 0, max |-> 0, res |-> <<>>]
        ELSE IF min = max
             THEN [min |-> min, max |-> max,
                   res |-> <<[Lo |-> min, Hi |-> max, Count |-> n]>>]
        ELSE [min |-> min, max |-> max,
              res |-> histBins(sortedPrices, min, binWidth(max - min, b), b)]

(***************************************************************************)
(* Query parameters.  A raw query value is [kind, v]: "absent" (missing or *)
(* blank after TrimSpace), "text" (not a decimal integer, so strconv.Atoi  *)
(* fails) or "int" (the decimal text of v).  A parse result is             *)
(* [v |-> value, err |-> message], err = "" standing for a nil error.      *)
(***************************************************************************)
Absent == [kind |-> "absent", v |-> 0]

Text == [kind |-> "text", v |-> 0]

IntRaw(v) == [kind |-> "int", v |-> v]

parseMaxPointsParam(raw) ==
    IF raw.kind = "absent" THEN [v |-> 400, err |-> ""]
    ELSE IF raw.kind = "text" THEN [v |-> 0, err |-> "invalid maxPoints"]
    ELSE IF raw.v < 10 THEN [v |-> 10, err |-> ""]
    ELSE IF raw.v > 5000 THEN [v |-> 5000, err |-> ""]
    ELSE [v |-> raw.v, err |-> ""]

\* faulty variant of parseTrimPctParam: the multiple-of-5 check is missing
parseTrimPctParamAnyStep(rawTrimPct, rawTrim) ==
    LET raw == IF rawTrimPct.kind = "absent" THEN rawTrim ELSE rawTrimPct
    IN  IF raw.kind = "absent" THEN [v |-> 0, err |-> ""]
        ELSE IF raw.kind = "text" THEN [v |-> 0, err |-> "invalid trimPct"]
        ELSE IF raw.v < 0 \/ raw.v > 50
             THEN [v |-> 0, err |-> "trimPct must be between 0 and 50"]
        ELSE [v |-> raw.v, err |-> ""]

parseTrimPctParam(rawTrimPct, rawTrim) ==
    LET raw == IF rawTrimPct.kind = "absent" THEN rawTrim ELSE rawTrimPct
    IN  IF raw.kind = "absent" THEN [v |-> 0, err |-> ""]
        ELSE IF raw.kind = "text" THEN [v |-> 0, err |-> "invalid trimPct"]
        ELSE IF raw.v < 0 \/ raw.v > 50
             THEN [v |-> 0, err |-> "trimPct must be between 0 and 50"]
        ELSE IF GoMod(raw.v, 5) # 0
             THEN [v |-> 0, err |-> "trimPct must be a multiple of 5"]
        ELSE [v |-> raw.v, err |-> ""]

parseBinsParam(raw) ==
    IF raw.kind = "absent" THEN [v |-> 24, err |-> ""]
    ELSE IF raw.kind = "text" THEN [v |-> 0, err |-> "invalid bins"]
    ELSE IF raw.v < 5 THEN [v |-> 5, err |-> ""]
    ELSE IF raw.v > 120 THEN [v |-> 120, err |-> ""]
    ELSE [v |-> raw.v, err |-> ""]

(***************************************************************************)
(* Responses: what writeError and writeJSON put on the wire.               *)
(***************************************************************************)
EmptyHist == [TS |-> 0, TrimPct |-> 0, N |-> 0, Min |-> 0, Max |-> 0, Bins |-> <<>>]

NoResponse == [status |-> 0, error |-> "", Points |-> <<>>, hist |-> EmptyHist]

writeError(status, msg) ==
    [status |-> status, error |-> msg, Points |-> <<>>, hist |-> EmptyHist]

\* writeJSON(w, http.StatusOK, seriesResponse{...})
seriesOK(points) ==
    [status |-> 200, error |-> "", Points |-> points, hist |-> EmptyHist]

\* writeJSON(w, http.StatusOK, histogramResponse{...})
histogramOK(h) ==
    [status |-> 200, error |-> "", Points |-> <<>>, hist |-> h]

(***************************************************************************)
(* The loop body of handleSeries and the steps after the loop, as          *)
(* functions of the handler's locals l = [curScanID, curTS, acc, points].  *)
(***************************************************************************)
\* first row seen: open the scan
openFirst(l, row) ==
    IF l.curScanID = -1
    THEN [l EXCEPT !.curScanID = row.scanId, !.curTS = row.ts,
                   !.acc = reset(l.acc, row.scanId, row.ts)]
    ELSE l

\* faulty variant of closeOnChange: the scan is closed when the timestamp changes
closeOnTSChange(l, row, trimPct) ==
    IF row.ts # l.curTS
    THEN [l EXCEPT !.points = Append(l.points, point(l.acc, trimPct)),
                   !.curScanID = row.scanId, !.curTS = row.ts,
                   !.acc = reset(afterPoint(l.acc, trimPct), row.scanId, row.ts)]
    ELSE l

\* scanId changed: close the open scan and open the next
closeOnChange(l, row, trimPct) ==
    IF row.scanId # l.curScanID
    THEN [l EXCEPT !.points = Append(l.points, point(l.acc, trimPct)),
                   !.curScanID = row.scanId, !.curTS = row.ts,
                   !.acc = reset(afterPoint(l.acc, trimPct), row.scanId, row.ts)]
    ELSE l

\* faulty variant of updateTS: the first timestamp of the scan is kept
updateTSKeepFirst(l, row) == l

\* same scan, other timestamp: the last timestamp wins
updateTS(l, row) ==
    IF row.ts # l.curTS
    THEN [l EXCEPT !.acc = [l.acc EXCEPT !.ts = row.ts], !.curTS = row.ts]
    ELSE l

seriesLoopBody(l, row, trimPct) ==
    LET l3 == updateTS(closeOnChange(openFirst(l, row), row, trimPct), row)
    IN  [l3 EXCEPT !.acc = add(l3.acc, row.price)]

\* after the loop: the open scan is closed when it holds a price
closeLast(points, acc, trimPct) ==
    IF Len(acc.prices) > 0 THEN Append(points, point(acc, trimPct)) ELSE points

\* the orders sort.Slice may leave the points in: sort.Slice is not stable,
\* so every arrangement that is ascending by TS is possible
RECURSIVE sortSlice(_)
sortSlice(points) ==
    IF points = <<>> THEN {<<>>}
    ELSE LET x == points[Len(points)]
         IN  UNION {
               { SubSeq(t, 1, k) \o <<x>> \o SubSeq(t, k + 1, Len(t)) :
                   k \in { j \in 0..Len(t) :
                             /\ \A i \in 1..j : t[i].TS <= x.TS
                             /\ \A i \in (j + 1)..Len(t) : x.TS <= t[i].TS } }
               : t \in sortSlice(SubSeq(points, 1, Len(points) - 1)) }

\* faulty variant of downsample: the first maxPoints are kept
downsampleHead(points, maxPoints) ==
    IF Len(points) > maxPoints THEN SubSeq(points, 1, maxPoints) ELSE points

\* points[len(points)-maxPoints:] when there are more than maxPoints
downsample(points, maxPoints) ==
    IF Len(points) > maxPoints
    THEN SubSeq(points, Len(points) - maxPoints + 1, Len(points))
    ELSE points

(***************************************************************************)
(* State.  Every variable is a function of the request context r: the      *)
(* handler's locals, the request it serves, the rows its query returns and *)
(* the response it wrote.  The only object the contexts share is the       *)
(* *sql.DB handle, which holds no state of the model.                      *)
(***************************************************************************)
VARIABLES
    handler,    \* "series", "histogram" or "none" (no request)
    query,      \* the raw query parameters of the request
    rows,       \* the rows the row source delivers, in order
    fault,      \* the row source's failure: "none", "scan" or "iter"
    pos,        \* rows consumed so far
    pc,         \* position in the handler
    maxPoints, trimPct, bins,       \* the parsed parameters
    curScanID, curTS, acc, points,  \* locals of handleSeries
    ts, prices,                     \* locals of handleHistogram
    resp,       \* the response written
    medValues,  \* the argument of a call of medianSorted on int64 prices
    medReturn   \* that call's state and the float64 it returned

vars == <<handler, query, rows, fault, pos, pc, maxPoints, trimPct, bins,
          curScanID, curTS, acc, points, ts, prices, resp, medValues, medReturn>>

Runs == 1..NumRuns

\* faulty variant of accOf: one accumulator, declared outside the handler
accOfShared(r) == 1

\* the accumulator run r works on: acc is a local of handleSeries, made anew
\* by each call
accOf(r) == r

(***************************************************************************)
(* Row streams and requests the model draws from.  A row is                *)
(* [scanId, ts, price].  Scan ids are the positive ids parseScanIDParam    *)
(* accepts; timestamps are seconds.  The queries order by price within a   *)
(* scan (ORDER BY a.scanId, price), so prices never decrease within a run  *)
(* of rows of one scan; the order of the scan ids themselves is free, to   *)
(* cover streams that break the grouping contract.                         *)
(***************************************************************************)
ScanIds == {1, 2}

TsValues == {100, 200}

Row(scanId, t, price) == [scanId |-> scanId, ts |-> t, price |-> price]

SeqsUpTo(S, n) == UNION {[1..k -> S] : k \in 0..n}

PriceOrdered(s) ==
    \A i \in 1..(Len(s) - 1) :
        s[i].scanId = s[i + 1].scanId => s[i].price <= s[i + 1].price

\* base family: every short stream
BaseStreams ==
    { s \in SeqsUpTo([scanId : ScanIds, ts : TsValues, price : 1..MaxPrice], MaxRows) :
        PriceOrdered(s) }

\* the rows of one scan with the prices ps, in order
OneScan(ps, t) == [i \in 1..Len(ps) |-> Row(1, t, ps[i])]

\* every stream of one scan of up to maxLen rows, ordered by price
OneScanStreams(maxLen, priceSet) ==
    { OneScan(ps, 100) : ps \in {q \in SeqsUpTo(priceSet, maxLen) : IsSorted(q)} }

\* long family: LongRows scans of one row each; scan i has timestamp i or
\* i + 2, so the stream is out of timestamp order and has equal timestamps
LongStreams ==
    { [i \in 1..LongRows |-> Row(i, i + 2 * late[i], 1)] :
        late \in [1..LongRows -> {0, 1}] }

\* the prices lo, lo + 1, ..., hi
Range(lo, hi) == [i \in 1..(hi - lo + 1) |-> lo + i - 1]

TrimPcts == {5 * k : k \in 0..10}

Query(mp, tp, tr, b) == [maxPoints |-> mp, trimPct |-> tp, trim |-> tr, bins |-> b]

BaseQueries ==
    { Query(Absent, tp, Absent, Absent) : tp \in {Absent, IntRaw(50)} }

Scenario(h, q, s) == [handler |-> h, query |-> q, rows |-> s]

BaseFamily ==
    { Scenario("series", q, s) : q \in BaseQueries, s \in BaseStreams }

\* statistics family: one scan, every trim
StatFamily ==
    { Scenario("series", Query(Absent, IntRaw(tp), Absent, Absent), s) :
        tp \in {0, 10, 25, 40, 50}, s \in OneScanStreams(MaxScanLen, 1..MaxScanPrice) }

\* histogram family: one scan, default and least bin count
HistFamily ==
    { Scenario("histogram", Query(Absent, tp, Absent, b), s) :
        tp \in {Absent, IntRaw(50)}, b \in {Absent, IntRaw(5)},
        s \in OneScanStreams(MaxRows, 1..MaxHistPrice) }

\* long family: more scans than maxPoints
LongFamily ==
    { Scenario("series", Query(IntRaw(10), Absent, Absent, Absent), s) :
        s \in LongStreams }

\* trim family: long scans of distinct prices 1..n, every trim
TrimFamily ==
    { Scenario("histogram", Query(Absent, IntRaw(tp), Absent, Absent),
               OneScan(Range(1, n), 100)) :
        tp \in TrimPcts, n \in {20, 100, BigScanLen} }

\* the prices 0..99 with ten bins
Hist100Family ==
    { Scenario("histogram", Query(Absent, Absent, Absent, IntRaw(10)),
               OneScan(Range(0, 99), 100)) }

\* the prices 1, 1, 1, 1 with four bins asked for
EqualPricesFamily ==
    { Scenario("histogram", Query(Absent, Absent, Absent, IntRaw(4)),
               OneScan(<<1, 1, 1, 1>>, 100)) }

NoScenario == Scenario("none", Query(Absent, Absent, Absent, Absent), <<>>)

\* parameter family: every kind of raw value of the query parameters (absent,
\* not a number, below, inside and above the range, the trim alias), on one
\* short stream for each handler
RawTrimPcts == {Absent, Text} \cup {IntRaw(v) : v \in {-5, 0, 5, 7, 25, 50, 55}}

RawTrims == {Absent, Text, IntRaw(15), IntRaw(12)}

RawMaxPoints == {Absent, Text} \cup {IntRaw(v) : v \in {-1, 9, 10, 400, 5000, 5001}}

RawBins == {Absent, Text} \cup {IntRaw(v) : v \in {-1, 4, 5, 24, 120, 121}}

ParamFamily ==
    { Scenario("series", Query(mp, tp, tr, Absent), <<Row(1, 100, 1), Row(2, 200, 2)>>) :
        mp \in RawMaxPoints, tp \in RawTrimPcts, tr \in RawTrims }
    \cup
    { Scenario("histogram", Query(Absent, tp, tr, b), OneScan(<<1, 2>>, 100)) :
        tp \in RawTrimPcts, tr \in RawTrims, b \in RawBins }

\* the stream of the worked example: scan 1 at 100 with prices 10, 20, 30,
\* then scan 2 at 200 with price 5
ExampleStream ==
    <<Row(1, 100, 10), Row(1, 100, 20), Row(1, 100, 30), Row(2, 200, 5)>>

\* the worked example: trimPct=0 and maxPoints=10
ExampleFamily ==
    { Scenario("series", Query(IntRaw(10), IntRaw(0), Absent, Absent), ExampleStream) }

\* concurrency family: two series requests and two histogram requests with
\* different rows
ConcFamily ==
    { Scenario("series", Query(Absent, Absent, Absent, Absent),
               <<Row(1, 200, 1), Row(2, 100, 2)>>),
      Scenario("series", Query(Absent, IntRaw(50), Absent, Absent),
               <<Row(2, 100, 3), Row(2, 200, 4)>>),
      Scenario("histogram", Query(Absent, Absent, Absent, Absent),
               OneScan(<<5, 7>>, 100)),
      Scenario("histogram", Query(Absent, Absent, Absent, IntRaw(5)),
               OneScan(<<6>>, 200)) }

\* any-id family: scan ids as any integer the scanId column can hold, the
\* value -1 among them
AnyScanIds == {-1, 0, 1}

AnyIdStreams ==
    { s \in SeqsUpTo([scanId : AnyScanIds, ts : {100}, price : 1..MaxPrice], MaxRows) :
        PriceOrdered(s) }

AnyIdFamily ==
    { Scenario("series", Query(Absent, Absent, Absent, Absent), s) : s \in AnyIdStreams }
    \cup
    { Scenario("histogram", Query(Absent, Absent, Absent, Absent), OneScan(<<1, 2>>, 100)) }

\* the state after construction: run 1 serves a request of the family
InitWith(family) ==
    \E sc \in family :
        /\ handler = [r \in Runs |-> IF r = 1 THEN sc.handler ELSE "none"]
        /\ query = [r \in Runs |-> IF r = 1 THEN sc.query ELSE NoScenario.query]
        /\ rows = [r \in Runs |-> IF r = 1 THEN sc.rows ELSE <<>>]
        /\ fault = [r \in Runs |-> "none"]
        /\ pos = [r \in Runs |-> 0]
        /\ pc = [r \in Runs |-> IF r = 1 THEN "start" ELSE "idle"]
        /\ maxPoints = [r \in Runs |-> 0]
        /\ trimPct = [r \in Runs |-> 0]
        /\ bins = [r \in Runs |-> 0]
        /\ curScanID = [r \in Runs |-> -1]
        /\ curTS = [r \in Runs |-> 0]
        /\ acc = [r \in Runs |-> [scanID |-> 0, ts |-> 0, prices |-> <<>>]]
        /\ points = [r \in Runs |-> <<>>]
        /\ ts = [r \in Runs |-> 0]
        /\ prices = [r \in Runs |-> <<>>]
        /\ resp = [r \in Runs |-> NoResponse]

\* no call of medianSorted outside the handlers in this behaviour
NoCall == [st |-> "idle", neg |-> FALSE, m |-> <<>>, e |-> 0]

NoMedianCall == medValues = <<>> /\ medReturn = NoCall

\* int64 prices from the least to the greatest, in ascending order
WidePrices ==
    <<MinInt64, I64Neg(I64Pow2Plus(62, 0)), I64(-3), I64(-1), I64(0), I64(1),
      I64(2), I64Pow2Plus(53, 1), I64Pow2Plus(62, 0), I64Pow2Plus(62, 1),
      MaxInt64>>

\* every ascending list of up to MaxWideLen of the prices of WidePrices
WideLists ==
    { [i \in 1..Len(q) |-> WidePrices[q[i]]] :
        q \in {x \in SeqsUpTo(1..Len(WidePrices), MaxWideLen) : IsSorted(x)} }

\* short lists of small prices
SmallLists == { <<I64(1), I64(2)>>, <<I64(3)>> }

\* a call of medianSorted is pending on one of the lists, no request is served
InitMedian(lists) ==
    /\ handler = [r \in Runs |-> "none"]
    /\ query = [r \in Runs |-> NoScenario.query]
    /\ rows = [r \in Runs |-> <<>>]
    /\ fault = [r \in Runs |-> "none"]
    /\ pos = [r \in Runs |-> 0]
    /\ pc = [r \in Runs |-> "idle"]
    /\ maxPoints = [r \in Runs |-> 0]
    /\ trimPct = [r \in Runs |-> 0]
    /\ bins = [r \in Runs |-> 0]
    /\ curScanID = [r \in Runs |-> -1]
    /\ curTS = [r \in Runs |-> 0]
    /\ acc = [r \in Runs |-> [scanID |-> 0, ts |-> 0, prices |-> <<>>]]
    /\ points = [r \in Runs |-> <<>>]
    /\ ts = [r \in Runs |-> 0]
    /\ prices = [r \in Runs |-> <<>>]
    /\ resp = [r \in Runs |-> NoResponse]
    /\ medValues \in lists
    /\ medReturn = [NoCall EXCEPT !.st = "pending"]

Init ==
    \/ /\ InitWith(BaseFamily \cup StatFamily \cup HistFamily \cup EqualPricesFamily
                    \cup ExampleFamily)
       /\ NoMedianCall
    \/ InitMedian(SmallLists)

InitParams ==
    \/ InitWith(ParamFamily) /\ NoMedianCall
    \/ InitMedian(SmallLists)

\* every run serves a request of the family
InitEach(family) ==
    \E sc \in [Runs -> family] :
        /\ handler = [r \in Runs |-> sc[r].handler]
        /\ query = [r \in Runs |-> sc[r].query]
        /\ rows = [r \in Runs |-> sc[r].rows]
        /\ fault = [r \in Runs |-> "none"]
        /\ pos = [r \in Runs |-> 0]
        /\ pc = [r \in Runs |-> "start"]
        /\ maxPoints = [r \in Runs |-> 0]
        /\ trimPct = [r \in Runs |-> 0]
        /\ bins = [r \in Runs |-> 0]
        /\ curScanID = [r \in Runs |-> -1]
        /\ curTS = [r \in Runs |-> 0]
        /\ acc = [r \in Runs |-> [scanID |-> 0, ts |-> 0, prices |-> <<>>]]
        /\ points = [r \in Runs |-> <<>>]
        /\ ts = [r \in Runs |-> 0]
        /\ prices = [r \in Runs |-> <<>>]
        /\ resp = [r \in Runs |-> NoResponse]

InitConc ==
    \/ InitEach(ConcFamily) /\ NoMedianCall
    \/ InitMedian(SmallLists)

InitAnyId ==
    \/ InitWith(AnyIdFamily) /\ NoMedianCall
    \/ InitMedian(SmallLists)

\* calls of medianSorted on the full range of int64, and the worked example
InitWide ==
    \/ InitWith(ExampleFamily \cup EqualPricesFamily) /\ NoMedianCall
    \/ InitMedian(WideLists)

InitLong ==
    \/ InitWith(LongFamily \cup TrimFamily \cup Hist100Family) /\ NoMedianCall
    \/ InitMedian(SmallLists)

(***************************************************************************)
(* Actions.                                                                *)
(***************************************************************************)
\* the handler writes a response and returns
Return(r, response) ==
    /\ resp' = [resp EXCEPT ![r] = response]
    /\ pc' = [pc EXCEPT ![r] = "done"]

\* The handler up to the loop: the checks on the request, the parameters,
\* the item lookup (handleSeries) and the query.  outcome is what the parts
\* outside the model do: "reject" (method, itemId, unit, scanId, realm or
\* time range refused), "dberr" (item lookup or query failed) or "ok".
Begin(r) ==
    /\ pc[r] = "start"
    /\ \E outcome \in {"reject", "dberr", "ok"} :
        LET mp == IF handler[r] = "series" THEN parseMaxPointsParam(query[r].maxPoints)
                  ELSE [v |-> 0, err |-> ""]
            tp == parseTrimPctParam(query[r].trimPct, query[r].trim)
            bn == IF handler[r] = "histogram" THEN parseBinsParam(query[r].bins)
                  ELSE [v |-> 0, err |-> ""]
        IN  IF outcome = "reject"
            THEN /\ Return(r, writeError(400, "bad request"))
                 /\ UNCHANGED <<maxPoints, trimPct, bins>>
            ELSE IF mp.err # ""
            THEN /\ Return(r, writeError(400, mp.err))
                 /\ UNCHANGED <<maxPoints, trimPct, bins>>
            ELSE IF tp.err # ""
            THEN /\ Return(r, writeError(400, tp.err))
                 /\ maxPoints' = [maxPoints EXCEPT ![r] = mp.v]
                 /\ UNCHANGED <<trimPct, bins>>
            ELSE IF bn.err # ""
            THEN /\ Return(r, writeError(400, bn.err))
                 /\ trimPct' = [trimPct EXCEPT ![r] = tp.v]
                 /\ UNCHANGED <<maxPoints, bins>>
            ELSE /\ maxPoints' = [maxPoints EXCEPT ![r] = mp.v]
                 /\ trimPct' = [trimPct EXCEPT ![r] = tp.v]
                 /\ bins' = [bins EXCEPT ![r] = bn.v]
                 /\ IF outcome = "dberr"
                    THEN Return(r, writeError(500, "db error"))
                    ELSE /\ pc' = [pc EXCEPT ![r] = "loop"]
                         /\ UNCHANGED resp
    /\ UNCHANGED <<handler, query, rows, fault, pos, curScanID, curTS, acc,
                   points, ts, prices>>

\* The row source fails while the handler iterates: the next rows.Scan
\* returns an error ("scan"), or the iteration stops and rows.Err() reports
\* it ("iter": a driver error, the request context cancelled or timed out).
SourceFails(r) ==
    /\ pc[r] = "loop"
    /\ fault[r] = "none"
    /\ \E k \in {"scan", "iter"} :
        /\ k = "scan" => pos[r] < Len(rows[r])
        /\ fault' = [fault EXCEPT ![r] = k]
    /\ UNCHANGED <<handler, query, rows, pos, pc, maxPoints, trimPct, bins,
                   curScanID, curTS, acc, points, ts, prices, resp>>

\* rows.Next() is true and rows.Scan fails
ScanError(r) ==
    /\ pc[r] = "loop"
    /\ fault[r] = "scan"
    /\ pos[r] < Len(rows[r])
    /\ Return(r, writeError(500, "scan error"))
    /\ UNCHANGED <<handler, query, rows, fault, pos, maxPoints, trimPct, bins,
                   curScanID, curTS, acc, points, ts, prices>>

\* one iteration of the loop of handleSeries
SeriesRow(r) ==
    /\ handler[r] = "series"
    /\ pc[r] = "loop"
    /\ fault[r] = "none"
    /\ pos[r] < Len(rows[r])
    /\ LET l == seriesLoopBody([curScanID |-> curScanID[r], curTS |-> curTS[r],
                                acc |-> acc[accOf(r)], points |-> points[r]],
                               rows[r][pos[r] + 1], trimPct[r])
       IN  /\ curScanID' = [curScanID EXCEPT ![r] = l.curScanID]
           /\ curTS' = [curTS EXCEPT ![r] = l.curTS]
           /\ acc' = [acc EXCEPT ![accOf(r)] = l.acc]
           /\ points' = [points EXCEPT ![r] = l.points]
    /\ pos' = [pos EXCEPT ![r] = pos[r] + 1]
    /\ UNCHANGED <<handler, query, rows, fault, pc, maxPoints, trimPct, bins,
                   ts, prices, resp>>

\* faulty variant of rowsErr: the error of the iteration is dropped
rowsErrIgnored(f) == ""

\* rows.Err() after the loop: "" stands for nil
rowsErr(f) == IF f = "iter" THEN "iteration error" ELSE ""

\* rows.Next() is false: the check of rows.Err() and the last scan
SeriesEnd(r) ==
    /\ handler[r] = "series"
    /\ pc[r] = "loop"
    /\ fault[r] = "iter" \/ (fault[r] = "none" /\ pos[r] = Len(rows[r]))
    /\ IF rowsErr(fault[r]) # ""
       THEN /\ Return(r, writeError(500, rowsErr(fault[r])))
            /\ UNCHANGED points
            /\ UNCHANGED acc
       ELSE /\ points' = [points EXCEPT ![r] =
                              closeLast(points[r], acc[accOf(r)], trimPct[r])]
            /\ acc' = [acc EXCEPT ![accOf(r)] =
                           IF Len(acc[accOf(r)].prices) > 0
                           THEN afterPoint(acc[accOf(r)], trimPct[r])
                           ELSE acc[accOf(r)]]
            /\ pc' = [pc EXCEPT ![r] = "sort"]
            /\ UNCHANGED resp
    /\ UNCHANGED <<handler, query, rows, fault, pos, maxPoints, trimPct, bins,
                   curScanID, curTS, ts, prices>>

\* sort by TS, keep the last maxPoints, write the response
SeriesRespond(r) ==
    /\ handler[r] = "series"
    /\ pc[r] = "sort"
    /\ \E sorted \in sortSlice(points[r]) :
        /\ points' = [points EXCEPT ![r] = downsample(sorted, maxPoints[r])]
        /\ Return(r, seriesOK(downsample(sorted, maxPoints[r])))
    /\ UNCHANGED <<handler, query, rows, fault, pos, maxPoints, trimPct, bins,
                   curScanID, curTS, acc, ts, prices>>

\* one iteration of the loop of handleHistogram
HistogramRow(r) ==
    /\ handler[r] = "histogram"
    /\ pc[r] = "loop"
    /\ fault[r] = "none"
    /\ pos[r] < Len(rows[r])
    /\ ts' = [ts EXCEPT ![r] = rows[r][pos[r] + 1].ts]
    /\ prices' = [prices EXCEPT ![r] = Append(prices[r], rows[r][pos[r] + 1].price)]
    /\ pos' = [pos EXCEPT ![r] = pos[r] + 1]
    /\ UNCHANGED <<handler, query, rows, fault, pc, maxPoints, trimPct, bins,
                   curScanID, curTS, acc, points, resp>>

\* the body of the histogram response for the trimmed prices
histogramOf(t, trimmed, trim, nbins) ==
    LET h == makeHistogram(trimmed, nbins)
    IN  [TS |-> t, TrimPct |-> trim, N |-> Len(trimmed),
         Min |-> h.min, Max |-> h.max, Bins |-> h.res]

\* rows.Next() is false: the check of rows.Err(), the trim, the histogram
HistogramEnd(r) ==
    /\ handler[r] = "histogram"
    /\ pc[r] = "loop"
    /\ fault[r] = "iter" \/ (fault[r] = "none" /\ pos[r] = Len(rows[r]))
    /\ IF rowsErr(fault[r]) # ""
       THEN /\ Return(r, writeError(500, rowsErr(fault[r])))
            /\ UNCHANGED prices
       ELSE /\ prices' = [prices EXCEPT ![r] = trimSorted(prices[r], trimPct[r])]
            /\ Return(r, histogramOK(histogramOf(ts[r], trimSorted(prices[r], trimPct[r]),
                                                 trimPct[r], bins[r])))
    /\ UNCHANGED <<handler, query, rows, fault, pos, maxPoints, trimPct, bins,
                   curScanID, curTS, acc, points, ts>>

\* a call of medianSorted on the int64 values medValues
MedianCall ==
    /\ medReturn.st = "pending"
    /\ LET f == medianSortedInt64(medValues)
       IN  medReturn' = [st |-> "done", neg |-> f.neg, m |-> f.m, e |-> f.e]
    /\ UNCHANGED <<handler, query, rows, fault, pos, pc, maxPoints, trimPct, bins,
                   curScanID, curTS, acc, points, ts, prices, resp, medValues>>

Next ==
    \/ /\ \E r \in Runs :
              \/ Begin(r)
              \/ SourceFails(r)
              \/ ScanError(r)
              \/ SeriesRow(r)
              \/ SeriesEnd(r)
              \/ SeriesRespond(r)
              \/ HistogramRow(r)
              \/ HistogramEnd(r)
       /\ UNCHANGED <<medValues, medReturn>>
    \/ MedianCall

Spec == Init /\ [][Next]_vars

\* the same handlers on the long row streams
SpecLong == InitLong /\ [][Next]_vars

\* the same handlers on every kind of raw query parameter
SpecParams == InitParams /\ [][Next]_vars

\* every run serves a request: the runs interleave step by step
SpecConc == InitConc /\ [][Next]_vars

\* the same handlers on row streams with any integer as scan id
SpecAnyId == InitAnyId /\ [][Next]_vars

\* medianSorted on the full range of int64
SpecWide == InitWide /\ [][Next]_vars

(***************************************************************************)
(* Helpers of the properties.                                              *)
(***************************************************************************)
\* the scan ids of the maximal runs of consecutive rows with one scanId
RECURSIVE RunIds(_)
RunIds(s) ==
    IF Len(s) = 0 THEN <<>>
    ELSE IF Len(s) = 1 THEN <<s[1].scanId>>
    ELSE IF s[Len(s)].scanId = s[Len(s) - 1].scanId
         THEN RunIds(SubSeq(s, 1, Len(s) - 1))
         ELSE Append(RunIds(SubSeq(s, 1, Len(s) - 1)), s[Len(s)].scanId)

Front(s) == SubSeq(s, 1, Len(s) - 1)

ScanIDsOf(ps) == [i \in 1..Len(ps) |-> ps[i].ScanID]

Elems(s) == {s[i] : i \in 1..Len(s)}

Count(s, x) == Cardinality({i \in 1..Len(s) : s[i] = x})

RECURSIVE SumSeq(_)
SumSeq(s) == IF s = <<>> THEN 0 ELSE s[1] + SumSeq(Tail(s))

PricesOf(s) == [i \in 1..Len(s) |-> s[i].price]

Served(r) == pc[r] = "done" /\ resp[r].status = 200

(***************************************************************************)
(* C1.  Series grouping: while handleSeries consumes the rows, the points  *)
(* produced so far are, in order, one for each maximal run of consecutive  *)
(* rows with one scanId that has ended (the next row had another scanId);  *)
(* when the stream has ended, before sorting and downsampling, there is    *)
(* exactly one point per maximal run, the open one included.  So a stream  *)
(* contiguous per scanId gives one point per distinct scanId, and a        *)
(* scanId that comes back gives a second point with that scanId.           *)
(***************************************************************************)
C1_OnePointPerRun ==
    \A r \in Runs :
        handler[r] = "series" =>
            /\ (pc[r] = "loop" /\ pos[r] = 0) => points[r] = <<>>
            /\ (pc[r] = "loop" /\ pos[r] > 0) =>
                  ScanIDsOf(points[r]) = Front(RunIds(SubSeq(rows[r], 1, pos[r])))
            /\ pc[r] = "sort" =>
                  /\ ScanIDsOf(points[r]) = RunIds(rows[r])
                  /\ \A id \in {rows[r][i].scanId : i \in 1..Len(rows[r])} :
                        Count(ScanIDsOf(points[r]), id) = Count(RunIds(rows[r]), id)

\* a stream in which scan 1 comes back after scan 2 has ended, with its
\* three points
C1_Witness ==
    \E r \in Runs :
        /\ handler[r] = "series"
        /\ pc[r] = "sort"
        /\ RunIds(rows[r]) = <<1, 2, 1>>
        /\ Len(points[r]) = 3

(***************************************************************************)
(* C2.  Downsampling: the step that sorts and responds returns the points  *)
(* ascending by ts, min(maxPoints, k) of the k produced ones, each         *)
(* returned point being a produced one, and every produced point that is   *)
(* not returned has a ts no later than that of every returned point.       *)
(***************************************************************************)
Downsampled(produced, out, mp) ==
    /\ Len(out) = Min2(mp, Len(produced))
    /\ Len(out) <= mp
    /\ \A i \in 1..(Len(out) - 1) : out[i].TS <= out[i + 1].TS
    /\ \A x \in Elems(out) : Count(out, x) <= Count(produced, x)
    /\ \A x \in Elems(produced) :
          Count(out, x) < Count(produced, x) =>
              \A y \in Elems(out) : x.TS <= y.TS

C2_TailTruncation ==
    [][\A r \in Runs :
          (pc[r] = "sort" /\ pc'[r] = "done") =>
              /\ resp'[r].status = 200
              /\ Downsampled(points[r], resp'[r].Points, maxPoints[r])]_vars

\* a response cut down to maxPoints points from more scans than that
C2_Witness ==
    \E r \in Runs :
        /\ handler[r] = "series"
        /\ Served(r)
        /\ Len(RunIds(rows[r])) > maxPoints[r]
        /\ Len(resp[r].Points) = maxPoints[r]

(***************************************************************************)
(* C3.  trimSorted cuts exactly t = min(floor(n*trimPct/100),              *)
(* floor((n-1)/2)) elements from each end and returns the middle           *)
(* values[t .. n-t) in order, leaving at least one element: stated of the  *)
(* price list handleHistogram trims, for a scan of n >= 1 rows.            *)
(***************************************************************************)
ExactTrim(n, tp) == Min2((n * tp) \div 100, (n - 1) \div 2)

C3_ExactTrimCount ==
    \A r \in Runs :
        (handler[r] = "histogram" /\ Served(r) /\ Len(rows[r]) >= 1) =>
            LET n == Len(rows[r])
                t == ExactTrim(n, trimPct[r])
            IN  /\ prices[r] = SubSeq(PricesOf(rows[r]), t + 1, n - t)
                /\ Len(prices[r]) >= 1
                /\ n - Len(prices[r]) <= 2 * ((n - 1) \div 2)

(***************************************************************************)
(* C4.  Every point made from a non-empty price list that never decreases  *)
(* has Min <= Q1 <= Median <= Q3 <= Max.                                   *)
(***************************************************************************)
Ordered(p) ==
    /\ FLeq(p.Min, p.Q1)
    /\ FLeq(p.Q1, p.Median)
    /\ FLeq(p.Median, p.Q3)
    /\ FLeq(p.Q3, p.Max)

C4_QuartileOrder ==
    \A r \in Runs :
        \A i \in 1..Len(points[r]) :
            points[r][i].N >= 1 => Ordered(points[r][i])

\* a point of four prices or more whose five values are all different
C4_Witness ==
    \E r \in Runs :
        \E i \in 1..Len(points[r]) :
            LET p == points[r][i]
            IN  /\ p.N >= 4
                /\ p.Min # p.Q1 /\ p.Q1 # p.Median
                /\ p.Median # p.Q3 /\ p.Q3 # p.Max

(***************************************************************************)
(* C5.  The bin counts of a histogram response sum to n, the number of     *)
(* prices left after the trim; and when all of them are equal the          *)
(* histogram is the one bin {lo: min, hi: max, count: n}, whatever bin     *)
(* count was asked for.                                                    *)
(***************************************************************************)
BinCounts(bs) == [k \in 1..Len(bs) |-> bs[k].Count]

C5_CountsSumToN ==
    \A r \in Runs :
        (handler[r] = "histogram" /\ Served(r)) =>
            LET h == resp[r].hist
            IN  /\ h.N = Len(prices[r])
                /\ SumSeq(BinCounts(h.Bins)) = h.N
                /\ (h.N >= 1 /\ h.Min = h.Max) =>
                      h.Bins = <<[Lo |-> h.Min, Hi |-> h.Max, Count |-> h.N]>>

\* the prices 1, 1, 1, 1: one bin of four
C5_Witness ==
    \E r \in Runs :
        /\ handler[r] = "histogram"
        /\ Served(r)
        /\ PricesOf(rows[r]) = <<1, 1, 1, 1>>
        /\ resp[r].hist.Bins = <<[Lo |-> 1, Hi |-> 1, Count |-> 4]>>

(***************************************************************************)
(* C6.  With min < max, the count of each bin is the number of prices p    *)
(* with lo <= p < hi, to which the last bin adds the prices equal to max   *)
(* when its hi is max: every price is counted in the bin that holds it,    *)
(* the last bin being closed at max.                                       *)
(***************************************************************************)
InBin(p, bs, k, max) ==
    \/ bs[k].Lo <= p /\ p < bs[k].Hi
    \/ k = Len(bs) /\ p = max /\ bs[k].Hi = max

C6_HalfOpenBins ==
    \A r \in Runs :
        (handler[r] = "histogram" /\ Served(r) /\ resp[r].hist.Min < resp[r].hist.Max) =>
            LET h == resp[r].hist
            IN  \A k \in 1..Len(h.Bins) :
                    h.Bins[k].Count =
                        Cardinality({j \in 1..Len(prices[r]) :
                                        InBin(prices[r][j], h.Bins, k, h.Max)})

\* a histogram whose last bin ends at max and counts a price equal to max
C6_Witness ==
    \E r \in Runs :
        /\ handler[r] = "histogram"
        /\ Served(r)
        /\ resp[r].hist.Min < resp[r].hist.Max
        /\ resp[r].hist.Bins[Len(resp[r].hist.Bins)].Hi = resp[r].hist.Max
        /\ resp[r].hist.Bins[Len(resp[r].hist.Bins)].Count >= 1

(***************************************************************************)
(* C7.  With min < max the histogram has exactly `bins` buckets of one     *)
(* width w = max(1, ceil((max-min)/bins)), the first starting at min, each *)
(* starting where the one before ends, the last ending at max or above;    *)
(* and the prices 0..99 with ten bins give ten buckets of width 10 with    *)
(* ten prices each.                                                        *)
(***************************************************************************)
CeilDiv(a, b) == (a + b - 1) \div b

C7_EqualWidthBins ==
    \A r \in Runs :
        (handler[r] = "histogram" /\ Served(r) /\ resp[r].hist.Min < resp[r].hist.Max) =>
            LET h == resp[r].hist
                w == Max2(1, CeilDiv(h.Max - h.Min, bins[r]))
            IN  /\ bins[r] >= 1
                /\ Len(h.Bins) = bins[r]
                /\ h.Bins[1].Lo = h.Min
                /\ \A k \in 1..Len(h.Bins) : h.Bins[k].Hi - h.Bins[k].Lo = w
                /\ \A k \in 2..Len(h.Bins) : h.Bins[k].Lo = h.Bins[k - 1].Hi
                /\ h.Bins[Len(h.Bins)].Hi >= h.Max
                /\ (PricesOf(rows[r]) = Range(0, 99) /\ trimPct[r] = 0 /\ bins[r] = 10) =>
                      h.Bins = [k \in 1..10 |->
                                  [Lo |-> 10 * (k - 1), Hi |-> 10 * k, Count |-> 10]]

\* the histogram of the prices 0..99 with ten bins
C7_Witness ==
    \E r \in Runs :
        /\ handler[r] = "histogram"
        /\ Served(r)
        /\ PricesOf(rows[r]) = Range(0, 99)
        /\ bins[r] = 10
        /\ Len(resp[r].hist.Bins) = 10

(***************************************************************************)
(* C8.  No point with n = 0 is produced or returned: every point of the    *)
(* handler's list and of the series response has N >= 1.                   *)
(***************************************************************************)
C8_NoEmptyPoint ==
    \A r \in Runs :
        /\ \A i \in 1..Len(points[r]) : points[r][i].N >= 1
        /\ \A i \in 1..Len(resp[r].Points) : resp[r].Points[i].N >= 1

\* a response under the largest trim with a point of a scan of two prices,
\* of which the trim leaves both (the clamp floor((2-1)/2) = 0)
C8_Witness ==
    \E r \in Runs :
        /\ handler[r] = "series"
        /\ Served(r)
        /\ trimPct[r] = 50
        /\ Len(rows[r]) = 2
        /\ \E i \in 1..Len(resp[r].Points) : resp[r].Points[i].N = 2

(***************************************************************************)
(* C9.  A run whose row source failed never answers with a series or a     *)
(* histogram: its response, if any, is an error without points and bins;   *)
(* and a success response is written only with every row consumed and no   *)
(* failure.                                                                *)
(***************************************************************************)
C9_NoPartialEmission ==
    \A r \in Runs :
        /\ fault[r] # "none" =>
              /\ resp[r].status # 200
              /\ resp[r].Points = <<>>
              /\ resp[r].hist = EmptyHist
        /\ (fault[r] # "none" /\ pc[r] = "done") => resp[r].status = 500
        /\ resp[r].status = 200 =>
              /\ pos[r] = Len(rows[r])
              /\ fault[r] = "none"

\* the iteration failed after a scan had been closed, and the run answered
\* with the error
C9_Witness ==
    \E r \in Runs :
        /\ fault[r] = "iter"
        /\ pc[r] = "done"
        /\ resp[r].status = 500
        /\ pos[r] >= 1
        /\ (Len(points[r]) >= 1 \/ Len(prices[r]) >= 1)

(***************************************************************************)
(* C10.  When the stream has ended, the last point's Mean is the           *)
(* arithmetic mean of the trimmed prices of the last scan and its variance *)
(* is their population variance (the squared deviations over n); the       *)
(* variance of any point is never negative, and it is 0 when min = max.    *)
(* With s1 the sum and s2 the sum of squares of the n prices: mean = s1/n  *)
(* and variance = (n*s2 - s1^2) / n^2.                                     *)
(***************************************************************************)
Squares(xs) == [i \in 1..Len(xs) |-> xs[i] * xs[i]]

\* the middle k elements of xs (the trim is symmetric)
Middle(xs, k) == SubSeq(xs, (Len(xs) - k) \div 2 + 1, (Len(xs) - k) \div 2 + k)

C10_MeanAndPopulationVariance ==
    \A r \in Runs :
        /\ \A i \in 1..Len(points[r]) :
              /\ FLeq(FZero, points[r][i].Variance)
              /\ points[r][i].Min = points[r][i].Max => points[r][i].Variance = FZero
        /\ (handler[r] = "series" /\ pc[r] = "sort" /\ Len(points[r]) >= 1) =>
              LET p  == points[r][Len(points[r])]
                  xs == Middle(acc[r].prices, p.N)
                  s1 == SumSeq(xs)
                  s2 == SumSeq(Squares(xs))
              IN  /\ p.N >= 1
                  /\ p.Mean = Frac(s1, p.N)
                  /\ p.Variance = Frac(p.N * s2 - s1 * s1, p.N * p.N)

\* a last point of three or more prices that are not all equal
C10_Witness ==
    \E r \in Runs :
        /\ handler[r] = "series"
        /\ pc[r] = "sort"
        /\ Len(points[r]) >= 1
        /\ points[r][Len(points[r])].N >= 3
        /\ points[r][Len(points[r])].Variance # FZero
        /\ points[r][Len(points[r])].Mean[2] # 1

(***************************************************************************)
(* C11.  Median and quartiles follow the exclusive median-of-halves        *)
(* method.  For the point of the scan that is closed last, computed from   *)
(* the n prices xs left by the trim: Median is the middle element of xs    *)
(* for odd n and the average of the two middle elements for even n; Q1 is  *)
(* the median of the first floor(n/2) elements and Q3 the median of the    *)
(* last floor(n/2) elements, so the middle element is in neither half      *)
(* when n is odd; for n = 1 both halves are empty and Q1 = Q3 = Median.    *)
(***************************************************************************)
\* the median of a non-empty ascending list, as an exact fraction
MedianOf(xs) ==
    IF Len(xs) % 2 = 1 THEN FInt(xs[(Len(xs) + 1) \div 2])
    ELSE Frac(xs[Len(xs) \div 2] + xs[Len(xs) \div 2 + 1], 2)

C11_MedianOfHalves ==
    \A r \in Runs :
        (handler[r] = "series" /\ pc[r] = "sort" /\ Len(points[r]) >= 1) =>
            LET p    == points[r][Len(points[r])]
                xs   == Middle(acc[r].prices, p.N)
                half == p.N \div 2
            IN  /\ p.N >= 1
                /\ p.Median = MedianOf(xs)
                /\ half = 0 => (p.Q1 = p.Median /\ p.Q3 = p.Median)
                /\ half > 0 =>
                      /\ p.Q1 = MedianOf(SubSeq(xs, 1, half))
                      /\ p.Q3 = MedianOf(SubSeq(xs, p.N - half + 1, p.N))

\* a scan of five distinct prices is closed untrimmed: the middle price is
\* the median and is in neither half
C11_Witness ==
    \E r \in Runs :
        /\ handler[r] = "series" /\ pc[r] = "sort" /\ Len(points[r]) >= 1
        /\ trimPct[r] = 0
        /\ LET p == points[r][Len(points[r])]
           IN  /\ p.N = 5
               /\ p.Median = FInt(acc[r].prices[3])
               /\ ~ FLeq(p.Median, p.Q1)
               /\ ~ FLeq(p.Q3, p.Median)
               /\ acc[r].prices[1] # acc[r].prices[2]

(***************************************************************************)
(* C12.  Parameters reaching the aggregation are within range.  While a    *)
(* handler reads rows, sorts or has answered 200: trimPct is one of        *)
(* 0, 5, ..., 50, bins (histogram) is within 5..120 and maxPoints (series) *)
(* within 10..5000, whatever number was given; an absent parameter gives   *)
(* trimPct 0, bins 24, maxPoints 400, and a valid trimPct is used as       *)
(* given.  A trimPct that is not a number, outside 0..50 or not a multiple *)
(* of 5 never reaches the aggregation: the request ends with status 400    *)
(* and no row has been read.  The trim percentage is read from trimPct     *)
(* and, when that is absent, from trim.                                    *)
(***************************************************************************)
\* the raw trim percentage of the request of run r
RawTrimOf(r) ==
    IF query[r].trimPct.kind = "absent" THEN query[r].trim ELSE query[r].trimPct

BadTrimPct(raw) ==
    \/ raw.kind = "text"
    \/ raw.kind = "int" /\ raw.v \notin {0, 5, 10, 15, 20, 25, 30, 35, 40, 45, 50}

Aggregating(r) == pc[r] \in {"loop", "sort"} \/ Served(r)

C12_ParametersInRange ==
    \A r \in Runs :
        /\ (Aggregating(r) /\ handler[r] \in {"series", "histogram"}) =>
              /\ trimPct[r] \in {0, 5, 10, 15, 20, 25, 30, 35, 40, 45, 50}
              /\ RawTrimOf(r).kind = "absent" => trimPct[r] = 0
              /\ RawTrimOf(r).kind = "int" => trimPct[r] = RawTrimOf(r).v
              /\ handler[r] = "series" =>
                    /\ maxPoints[r] >= 10 /\ maxPoints[r] <= 5000
                    /\ query[r].maxPoints.kind = "absent" => maxPoints[r] = 400
              /\ handler[r] = "histogram" =>
                    /\ bins[r] >= 5 /\ bins[r] <= 120
                    /\ query[r].bins.kind = "absent" => bins[r] = 24
        /\ (handler[r] \in {"series", "histogram"} /\ BadTrimPct(RawTrimOf(r))) =>
              /\ ~ Aggregating(r)
              /\ pc[r] = "done" =>
                    /\ resp[r].status = 400
                    /\ pos[r] = 0 /\ points[r] = <<>> /\ prices[r] = <<>>
        /\ (pc[r] = "done" /\ resp[r].error = "invalid maxPoints") =>
              query[r].maxPoints.kind = "text"
        /\ (pc[r] = "done" /\ resp[r].error = "invalid bins") =>
              query[r].bins.kind = "text"

\* a histogram is served for bins=121 and trim=15 with trimPct absent: 120
\* bins and a trim of 15 percent reach the aggregation
C12_Witness ==
    \E r \in Runs :
        /\ handler[r] = "histogram" /\ Served(r)
        /\ query[r].bins = IntRaw(121) /\ bins[r] = 120
        /\ query[r].trimPct = Absent /\ query[r].trim = IntRaw(15)
        /\ trimPct[r] = 15
        /\ resp[r].hist.N = 2

(***************************************************************************)
(* C13.  trimSorted with trimPct = 0, or with an empty list, returns its   *)
(* input unchanged.  A histogram served with trimPct = 0 is made of        *)
(* exactly the prices read, in the order read, and a histogram of no rows  *)
(* keeps its empty list under every trimPct; a series point closed with    *)
(* trimPct = 0 counts every price of its scan.  Trimming the prices in use *)
(* again at 0, once or twice, gives the same list.                         *)
(***************************************************************************)
C13_TrimZeroIsIdentity ==
    \A r \in Runs :
        /\ (handler[r] = "histogram" /\ Served(r)) =>
              /\ trimPct[r] = 0 => prices[r] = PricesOf(rows[r])
              /\ rows[r] = <<>> => prices[r] = <<>>
              /\ trimSorted(prices[r], 0) = prices[r]
              /\ trimSorted(trimSorted(prices[r], 0), 0) = prices[r]
              /\ trimSorted(<<>>, trimPct[r]) = <<>>
        /\ (handler[r] = "series" /\ pc[r] = "sort" /\ Len(points[r]) >= 1
            /\ trimPct[r] = 0) =>
              /\ points[r][Len(points[r])].N = Len(acc[r].prices)
              /\ trimSorted(acc[r].prices, 0) = acc[r].prices

\* a histogram of three distinct prices is served untrimmed
C13_Witness ==
    \E r \in Runs :
        /\ handler[r] = "histogram" /\ Served(r) /\ trimPct[r] = 0
        /\ Len(prices[r]) = 3 /\ prices[r][1] < prices[r][2]
        /\ prices[r][2] < prices[r][3]
        /\ resp[r].hist.N = 3

(***************************************************************************)
(* C14.  Last-write-wins timestamp.  After each row consumed the           *)
(* accumulator carries the scanId and the timestamp of that row, so a row  *)
(* of the open scan with another timestamp replaces the scan's timestamp.  *)
(* Every point produced carries the scanId of its run and the timestamp    *)
(* of the last row of its run.                                             *)
(***************************************************************************)
\* the timestamp of the last row of each maximal run of one scanId
RECURSIVE RunLastTs(_)
RunLastTs(s) ==
    IF Len(s) = 0 THEN <<>>
    ELSE IF Len(s) = 1 THEN <<s[1].ts>>
    ELSE IF s[Len(s)].scanId = s[Len(s) - 1].scanId
         THEN Append(Front(RunLastTs(Front(s))), s[Len(s)].ts)
         ELSE Append(RunLastTs(Front(s)), s[Len(s)].ts)

TSOf(ps) == [i \in 1..Len(ps) |-> ps[i].TS]

C14_LastTimestampWins ==
    \A r \in Runs :
        handler[r] = "series" =>
            /\ (pc[r] = "loop" /\ pos[r] > 0) =>
                  /\ acc[r].ts = rows[r][pos[r]].ts
                  /\ acc[r].scanID = rows[r][pos[r]].scanId
                  /\ TSOf(points[r]) = Front(RunLastTs(SubSeq(rows[r], 1, pos[r])))
            /\ pc[r] = "sort" =>
                  /\ TSOf(points[r]) = RunLastTs(rows[r])
                  /\ ScanIDsOf(points[r]) = RunIds(rows[r])

\* scan 1 has rows at timestamp 100 and then 200, scan 2 follows: the point
\* of scan 1 carries 200
C14_Witness ==
    \E r \in Runs :
        /\ handler[r] = "series" /\ pc[r] = "sort"
        /\ Len(rows[r]) = 3
        /\ rows[r][1].scanId = 1 /\ rows[r][1].ts = 100
        /\ rows[r][2].scanId = 1 /\ rows[r][2].ts = 200
        /\ rows[r][3].scanId = 2 /\ rows[r][3].ts = 100
        /\ Len(points[r]) = 2
        /\ points[r][1].ScanID = 1 /\ points[r][1].TS = 200 /\ points[r][1].N = 2
        /\ points[r][2].ScanID = 2 /\ points[r][2].TS = 100

(***************************************************************************)
(* C15.  The worked example.  The stream (scan 1, ts 100, prices 10, 20,   *)
(* 30), (scan 2, ts 200, price 5) with trimPct=0 and maxPoints=10 is       *)
(* answered with exactly two points, in this order: scan 1 at 100 with     *)
(* n 3, min 10, q1 10, median 20, q3 30, max 30, mean 20 and variance      *)
(* 200/3 (a standard deviation between 8.16 and 8.17), then scan 2 at 200  *)
(* with n 1, every statistic 5 and variance 0.                             *)
(***************************************************************************)
ExamplePoint1 ==
    [ScanID |-> 1, TS |-> 100, N |-> 3, Min |-> FInt(10), Q1 |-> FInt(10),
     Q3 |-> FInt(30), Max |-> FInt(30), Mean |-> FInt(20), Median |-> FInt(20),
     Variance |-> Frac(200, 3)]

ExamplePoint2 ==
    [ScanID |-> 2, TS |-> 200, N |-> 1, Min |-> FInt(5), Q1 |-> FInt(5),
     Q3 |-> FInt(5), Max |-> FInt(5), Mean |-> FInt(5), Median |-> FInt(5),
     Variance |-> FZero]

C15_WorkedExample ==
    \A r \in Runs :
        (handler[r] = "series" /\ rows[r] = ExampleStream /\ Served(r)
         /\ trimPct[r] = 0 /\ maxPoints[r] = 10) =>
            /\ resp[r].Points = <<ExamplePoint1, ExamplePoint2>>
            /\ LET v == resp[r].Points[1].Variance
               IN  /\ 816 * 816 * v[2] <= v[1] * 10000
                   /\ v[1] * 10000 < 817 * 817 * v[2]

\* the worked example has been answered
C15_Witness ==
    \E r \in Runs :
        /\ handler[r] = "series" /\ rows[r] = ExampleStream /\ Served(r)
        /\ query[r].trimPct = IntRaw(0) /\ query[r].maxPoints = IntRaw(10)
        /\ Len(resp[r].Points) = 2

(***************************************************************************)
(* C17.  Empty input gives a defined zero result and no error, for every   *)
(* trimPct and bin count.  point on the accumulator of a run emptied of    *)
(* its prices (whatever scanId and ts it carries) is the all-zero point;   *)
(* makeHistogram on the empty list gives min = max = 0 and no bins; a      *)
(* histogram request whose scan has no rows is served (status 200, no       *)
(* error message) with n = 0, min = max = 0 and no bins.                   *)
(***************************************************************************)
C17_EmptyInputZeroResult ==
    \A r \in Runs :
        /\ point([acc[r] EXCEPT !.prices = <<>>], trimPct[r]) = ZeroPoint
        /\ ZeroPoint.ScanID = 0 /\ ZeroPoint.TS = 0 /\ ZeroPoint.N = 0
        /\ makeHistogram(<<>>, bins[r]) = [min |-> 0, max |-> 0, res |-> <<>>]
        /\ (handler[r] = "histogram" /\ rows[r] = <<>> /\ Served(r)) =>
              /\ resp[r].error = ""
              /\ prices[r] = <<>>
              /\ resp[r].hist.N = 0
              /\ resp[r].hist.Min = 0 /\ resp[r].hist.Max = 0
              /\ resp[r].hist.Bins = <<>>

\* a histogram of a scan without rows is answered under trimPct = 50 and
\* five bins
C17_Witness ==
    \E r \in Runs :
        /\ handler[r] = "histogram" /\ rows[r] = <<>> /\ Served(r)
        /\ trimPct[r] = 50 /\ bins[r] = 5
        /\ resp[r].hist.N = 0

(***************************************************************************)
(* C19.  Reducing does not disturb state.  The step that closes the last   *)
(* scan (point on the accumulator, with the trimSorted inside it) leaves   *)
(* the accumulator's scanID, ts and prices as they were; and in every step *)
(* of the loop and in the closing step the points appended so far stay as  *)
(* they are, in place: the new list of points is the old one, or the old   *)
(* one with one point appended, while reset and add go on reusing the      *)
(* accumulator for the following scans.                                    *)
(***************************************************************************)
C19_ReducingKeepsState ==
    [][\A r \in Runs :
          (handler[r] = "series" /\ pc[r] = "loop" /\ pc'[r] \in {"loop", "sort"}) =>
              /\ Len(points'[r]) \in {Len(points[r]), Len(points[r]) + 1}
              /\ SubSeq(points'[r], 1, Len(points[r])) = points[r]
              /\ pc'[r] = "sort" => acc'[r] = acc[r]
              /\ (pc'[r] = "loop" /\ pos'[r] = pos[r] + 1) =>
                    /\ acc'[r].scanID = rows[r][pos'[r]].scanId
                    /\ \/ acc'[r].prices = Append(acc[r].prices, rows[r][pos'[r]].price)
                       \/ acc'[r].prices = <<rows[r][pos'[r]].price>>]_vars

\* the last scan of five prices has been closed under trimPct = 50: its point
\* counts one price and the accumulator still holds the five
C19_Witness ==
    \E r \in Runs :
        /\ handler[r] = "series" /\ pc[r] = "sort" /\ trimPct[r] = 50
        /\ Len(acc[r].prices) = 5
        /\ Len(points[r]) = 1 /\ points[r][1].N = 1
        /\ acc[r].prices = PricesOf(rows[r])

(***************************************************************************)
(* C16.  Concurrent requests are independent.  Under every interleaving    *)
(* of the steps of the runs, each run is at every moment where it would be *)
(* running alone on its own rows: while a series run reads, its scan id,   *)
(* timestamp, accumulator and points are those of the loop run alone over  *)
(* the rows it has consumed; the prices of a histogram run are the prices  *)
(* of its own rows consumed; and a served response is one the request      *)
(* gives alone (one of them, where equal timestamps leave the sort free).  *)
(***************************************************************************)
\* the locals of handleSeries running alone over the first k rows
RECURSIVE LoopAlone(_, _, _)
LoopAlone(s, k, tp) ==
    IF k = 0
    THEN [curScanID |-> -1, curTS |-> 0,
          acc |-> [scanID |-> 0, ts |-> 0, prices |-> <<>>], points |-> <<>>]
    ELSE seriesLoopBody(LoopAlone(s, k - 1, tp), s[k], tp)

\* the responses handleSeries can give alone for the rows s
SeriesAlone(s, tp, mp) ==
    LET l == LoopAlone(s, Len(s), tp)
    IN  { seriesOK(downsample(sorted, mp)) :
            sorted \in sortSlice(closeLast(l.points, l.acc, tp)) }

\* the response handleHistogram gives alone for the rows s
HistogramAlone(s, tp, nbins) ==
    histogramOK(histogramOf(IF Len(s) = 0 THEN 0 ELSE s[Len(s)].ts,
                            trimSorted(PricesOf(s), tp), tp, nbins))

C16_RunsIndependent ==
    \A r \in Runs :
        LET tp == parseTrimPctParam(query[r].trimPct, query[r].trim).v
            mp == parseMaxPointsParam(query[r].maxPoints).v
            bn == parseBinsParam(query[r].bins).v
        IN  /\ (handler[r] = "series" /\ pc[r] = "loop") =>
                  LET l == LoopAlone(rows[r], pos[r], tp)
                  IN  /\ curScanID[r] = l.curScanID /\ curTS[r] = l.curTS
                      /\ acc[r] = l.acc /\ points[r] = l.points
            /\ (handler[r] = "series" /\ Served(r)) =>
                  resp[r] \in SeriesAlone(rows[r], tp, mp)
            /\ (handler[r] = "histogram" /\ pc[r] = "loop") =>
                  prices[r] = PricesOf(SubSeq(rows[r], 1, pos[r]))
            /\ (handler[r] = "histogram" /\ Served(r)) =>
                  resp[r] = HistogramAlone(rows[r], tp, bn)

\* two series runs on different rows are both inside the loop, each with one
\* row consumed and a price of its own in its accumulator
C16_Witness ==
    \E r, q \in Runs :
        /\ r # q
        /\ handler[r] = "series" /\ handler[q] = "series"
        /\ pc[r] = "loop" /\ pc[q] = "loop"
        /\ pos[r] = 1 /\ pos[q] = 1
        /\ acc[r].prices = <<1>> /\ acc[q].prices = <<3>>

(***************************************************************************)
(* C18.  Fold invariant of the series loop, for row streams whose scanIds  *)
(* are arbitrary integers.  After any prefix of the stream has been        *)
(* consumed, the accumulator holds exactly the prices, in order, of the    *)
(* maximal trailing run of rows with the scanId of the last row; the       *)
(* points produced so far are one per earlier run; so no consumed price is *)
(* left out of the points, and with trimPct = 0 the n of all points        *)
(* produced, before downsampling, sum up to the number of rows consumed.   *)
(***************************************************************************)
\* the maximal run of rows with the scanId of the last row, at the end of s
RECURSIVE TrailingRun(_)
TrailingRun(s) ==
    IF Len(s) <= 1 THEN s
    ELSE IF s[Len(s) - 1].scanId = s[Len(s)].scanId
         THEN Append(TrailingRun(Front(s)), s[Len(s)])
         ELSE <<s[Len(s)]>>

NsOf(ps) == [i \in 1..Len(ps) |-> ps[i].N]

C18_FoldInvariant ==
    \A r \in Runs :
        handler[r] = "series" =>
            /\ (pc[r] = "loop" /\ pos[r] > 0) =>
                  LET consumed == SubSeq(rows[r], 1, pos[r])
                  IN  /\ acc[r].prices = PricesOf(TrailingRun(consumed))
                      /\ Len(points[r]) = Len(RunIds(consumed)) - 1
                      /\ trimPct[r] = 0 =>
                            SumSeq(NsOf(points[r])) + Len(acc[r].prices) = pos[r]
            /\ (pc[r] = "sort" /\ trimPct[r] = 0) =>
                  SumSeq(NsOf(points[r])) = Len(rows[r])

(***************************************************************************)
(* C20.  For every even-length sorted list of int64 prices, medianSorted   *)
(* returns a value m with lo <= m <= hi, lo and hi being the two middle    *)
(* elements (compared as the float64 values the code converts them to):    *)
(* the sum lo + hi, computed on int64 before the division, does not wrap   *)
(* around for any pair of prices.                                          *)
(***************************************************************************)
\* |a| < |b| for bit strings without leading zeros
MagLess(a, b) ==
    \/ Len(a) < Len(b)
    \/ /\ Len(a) = Len(b)
       /\ \E i \in 1..Len(a) :
             /\ a[i] < b[i]
             /\ \A j \in 1..(i - 1) : a[j] = b[j]

\* the magnitude m * 2^e of x as a bit string at the scale 2^e0, e0 <= x.e
MagAt(x, e0) == IF x.m = <<>> THEN <<>> ELSE StripZeros(x.m) \o Zeros(x.e - e0)

\* a <= b for float64 values [neg, m, e]
F64Leq(a, b) ==
    LET e0 == Min2(a.e, b.e)
        ma == MagAt(a, e0)
        mb == MagAt(b, e0)
    IN  IF ma = <<>> /\ mb = <<>> THEN TRUE
        ELSE IF ma = <<>> THEN ~b.neg
        ELSE IF mb = <<>> THEN a.neg
        ELSE IF a.neg /\ ~b.neg THEN TRUE
        ELSE IF ~a.neg /\ b.neg THEN FALSE
        ELSE IF a.neg THEN ~MagLess(ma, mb)
        ELSE ~MagLess(mb, ma)

C20_MedianBetweenMiddlePair ==
    (medReturn.st = "done" /\ Len(medValues) > 0 /\ Len(medValues) % 2 = 0) =>
        LET lo == Float64OfInt64(medValues[Len(medValues) \div 2])
            hi == Float64OfInt64(medValues[Len(medValues) \div 2 + 1])
        IN  /\ F64Leq(lo, medReturn)
            /\ F64Leq(medReturn, hi)

====
